---- MODULE Spec2Model ----
(***************************************************************************)
(* Weight lattices and weight spaces of a root system                      *)
(* (sage/combinat/root_system/weight_space.py): the registry of            *)
(* WeightSpace instances, their memoized methods fundamental_weight and    *)
(* simple_root, the quotient coercion registered by the constructor, and   *)
(* the element operations scalar / is_dominant / to_ambient.               *)
(*                                                                         *)
(* Basis keys are strings: the nodes "0".."4" of the Dynkin diagram and    *)
(* the literal "delta".  Ring elements are integers (every coefficient the *)
(* code builds is the image K(c) of an integer c).                         *)
(***************************************************************************)
EXTENDS Integers, Sequences, FiniteSets, TLC

VARIABLES instances, coercions, cache, runs, ret

vars == <<instances, coercions, cache, runs, ret>>

(***************************************************************************)
(* Bounds of the model                                                     *)
(***************************************************************************)
\* live WeightSpace instances
MaxModels == 3
\* executions of the bodies of the cached methods that callers ask for
MaxRuns == 2
\* sum of the absolute values of the coefficients of an input element
MaxWeight == 2

(***************************************************************************)
(* The root-system collaborator, on the Cartan types whose data the        *)
(* docstrings of the module print: ['A',3], ['C',4], ['A',3,1], and the    *)
(* dual-side root system of ['A',3] (the one of coweight_space()).         *)
(***************************************************************************)
RootSystems == {"A3", "A3_dual", "C4", "A3~"}

Rings == {"ZZ", "QQ"}

Delta == "delta"

index_set(rs) ==
    CASE rs = "A3~" -> {"0", "1", "2", "3"}
      [] rs = "C4"  -> {"1", "2", "3", "4"}
      [] OTHER      -> {"1", "2", "3"}

is_affine(rs) == rs = "A3~"

special_node(rs) == "0"

dual_side(rs) == rs = "A3_dual"

\* a row of the Cartan matrix, on the nodes "0".."3" or "1".."4"
Row0(a, b, c, d) == ("0" :> a) @@ ("1" :> b) @@ ("2" :> c) @@ ("3" :> d)

Row1(a, b, c, d) == ("1" :> a) @@ ("2" :> b) @@ ("3" :> c) @@ ("4" :> d)

\* cartan_matrix()[i][j], the rows and columns indexed by the nodes
cartan_matrix(rs) ==
    CASE rs = "A3~" -> ("0" :> Row0( 2, -1,  0, -1)) @@
                       ("1" :> Row0(-1,  2, -1,  0)) @@
                       ("2" :> Row0( 0, -1,  2, -1)) @@
                       ("3" :> Row0(-1,  0, -1,  2))
      [] rs = "C4"  -> ("1" :> Row1( 2, -1,  0,  0)) @@
                       ("2" :> Row1(-1,  2, -1,  0)) @@
                       ("3" :> Row1( 0, -1,  2, -2)) @@
                       ("4" :> Row1( 0,  0, -1,  2))
      [] OTHER      -> ("1" :> Row1( 2, -1,  0,  0)) @@
                       ("2" :> Row1(-1,  2, -1,  0)) @@
                       ("3" :> Row1( 0, -1,  2,  0))

\* dynkin_diagram().column(j): the nonzero entries of column j of the Cartan
\* matrix, as a mapping from the row index to the entry
column(rs, j) ==
    LET M == cartan_matrix(rs)
    IN  [i \in {r \in index_set(rs) : M[r][j] # 0} |-> M[i][j]]

(***************************************************************************)
(* Spaces and their elements (the free-module collaborator)                *)
(***************************************************************************)
Space(kind, rs, ring, extended) ==
    [kind |-> kind, rs |-> rs, ring |-> ring, extended |-> extended]

NoSpace == Space("none", "", "", FALSE)

\* every key a WeightSpace can be requested under
Keys == {Space("weight", rs, ring, e) : rs \in RootSystems, ring \in Rings, e \in BOOLEAN}

NoCoeffs == [k \in {} |-> 0]

Element(P, f) == [parent |-> P, coeffs |-> f]

NoValue == Element(NoSpace, NoCoeffs)

zero(P) == Element(P, NoCoeffs)

monomial(P, k) == Element(P, [i \in {k} |-> 1])

coefficient(x, k) == IF k \in DOMAIN x.coeffs THEN x.coeffs[k] ELSE 0

\* a dictionary of coefficients with its zero entries removed
remove_zeros(f) == [k \in {i \in DOMAIN f : f[i] # 0} |-> f[k]]

\* K(c): the image of the integer c in the base ring
K(ring, c) == c

sum_of_terms(P, terms) ==
    Element(P, remove_zeros([i \in DOMAIN terms |-> K(P.ring, terms[i])]))

add(x, y) ==
    Element(x.parent,
            remove_zeros([k \in DOMAIN x.coeffs \cup DOMAIN y.coeffs |->
                              coefficient(x, k) + coefficient(y, k)]))

(***************************************************************************)
(* What a call gives back: a status ("ok" or the exception raised) and,    *)
(* according to the method, an element, a morphism, a ring element or a    *)
(* truth value.                                                            *)
(***************************************************************************)
Morphism(D, C) == [domain |-> D, codomain |-> C]

NoMorphism == Morphism(NoSpace, NoSpace)

Result(status, value, morphism, number, truth) ==
    [status |-> status, value |-> value, morphism |-> morphism,
     number |-> number, truth |-> truth]

Return(x) == Result("ok", x, NoMorphism, 0, FALSE)

ReturnMorphism(m) == Result("ok", NoValue, m, 0, FALSE)

ReturnNumber(n) == Result("ok", NoValue, NoMorphism, n, FALSE)

ReturnTruth(b) == Result("ok", NoValue, NoMorphism, 0, b)

Raise(e) == Result(e, NoValue, NoMorphism, 0, FALSE)

ErrExtended == "ValueError: extended weight lattices are only implemented for affine root systems"
ErrDelta == "ValueError: delta is only defined for affine weight spaces"
ErrIndex == "ValueError: not in the index set"
ErrCoroot == "ValueError: not in the coroot space"
ErrDual == "TypeError: No implemented map from the coweight space to the ambient space"

(***************************************************************************)
(* WeightSpace: the methods of an instance P                               *)
(***************************************************************************)
is_extended(P) == P.extended

basis_keys(P) ==
    IF P.extended THEN index_set(P.rs) \cup {Delta} ELSE index_set(P.rs)

\* fundamental_weight without the is_extended() test of the "delta" branch
fundamental_weight_unextended(P, i) ==
    IF i = Delta
    THEN IF ~is_affine(P.rs) THEN Raise(ErrDelta)
         ELSE Return(monomial(P, i))
    ELSE IF i \notin index_set(P.rs) THEN Raise(ErrIndex)
         ELSE Return(monomial(P, i))

fundamental_weight(P, i) ==
    IF i = Delta
    THEN IF ~is_affine(P.rs) THEN Raise(ErrDelta)
         ELSE IF is_extended(P) THEN Return(monomial(P, i))
         ELSE Return(zero(P))
    ELSE IF i \notin index_set(P.rs) THEN Raise(ErrIndex)
         ELSE Return(monomial(P, i))

\* simple_root without the test that j is the special node
simple_root_every_node(P, j) ==
    IF j \notin index_set(P.rs) THEN Raise(ErrIndex)
    ELSE LET result == sum_of_terms(P, column(P.rs, j))
         IN  IF P.extended
             THEN Return(add(result, monomial(P, Delta)))
             ELSE Return(result)

simple_root(P, j) ==
    IF j \notin index_set(P.rs) THEN Raise(ErrIndex)
    ELSE LET result == sum_of_terms(P, column(P.rs, j))
         IN  IF P.extended /\ j = special_node(P.rs)
             THEN Return(add(result, monomial(P, Delta)))
             ELSE Return(result)

\* cartan_type().root_system().ambient_space(): type_affine.AmbientSpace
\* realizes the affine types, so every modelled type has one
ambient_space(rs) == Space("ambient", rs, "QQ", FALSE)

to_ambient_space_morphism(P) ==
    IF dual_side(P.rs) THEN Raise(ErrDual)
    ELSE ReturnMorphism(Morphism(P, ambient_space(P.rs)))

(***************************************************************************)
(* The state.                                                              *)
(*   instances  for every key, the number of WeightSpace objects that      *)
(*              __init__ has completed for it                              *)
(*   coercions  the registered coercion maps                               *)
(*   cache      the cached_method caches: (instance, method, argument) to  *)
(*              the result stored                                          *)
(*   runs       how many times the body of a cached method was executed,   *)
(*              per (instance, method, argument)                           *)
(*   ret        the last call, whether it executed the body of the method  *)
(*              (or __init__) rather than finding the result stored, and   *)
(*              what it gave back                                          *)
(***************************************************************************)
Call(op, args, model, arg, x, y, ran, res) ==
    [op |-> op, args |-> args, model |-> model, arg |-> arg, x |-> x, y |-> y,
     ran |-> ran, status |-> res.status, value |-> res.value, morphism |-> res.morphism,
     number |-> res.number, truth |-> res.truth]

NoCall == Call("none", <<>>, NoSpace, "", NoValue, NoValue, FALSE, Raise("none"))

CallKey(P, method, arg) == [model |-> P, method |-> method, arg |-> arg]

Live == {k \in Keys : instances[k] > 0}

runs_of(key) == IF key \in DOMAIN runs THEN runs[key] ELSE 0

RECURSIVE SumOver(_, _)
SumOver(S, f) ==
    IF S = {} THEN 0
    ELSE LET k == CHOOSE k \in S : TRUE IN f[k] + SumOver(S \ {k}, f)

TotalRuns == SumOver(DOMAIN runs, runs)

NoInstances == [k \in Keys |-> 0]

NoCache == [k \in {} |-> Raise("none")]

NoRuns == [k \in {} |-> 0]

Init ==
    /\ instances = NoInstances
    /\ coercions = {}
    /\ cache = NoCache
    /\ runs = NoRuns
    /\ ret = NoCall

(***************************************************************************)
(* WeightSpace(root_system, base_ring[, extended])                         *)
(***************************************************************************)
RequestArgs ==
    {<<rs, ring>> : rs \in RootSystems, ring \in Rings}
      \cup {<<rs, ring, e>> : rs \in RootSystems, ring \in Rings, e \in BOOLEAN}

\* __classcall_private__ with extended defaulting to True
classcall_private_extended(args) ==
    Space("weight", args[1], args[2], IF Len(args) >= 3 THEN args[3] ELSE TRUE)

\* extended defaults to False; the key of the instance is the full triple
classcall_private(args) ==
    Space("weight", args[1], args[2], IF Len(args) >= 3 THEN args[3] ELSE FALSE)

\* __init__ without the validation
init_raises_never(rs, extended) == FALSE

\* the validation of __init__
init_raises(rs, extended) == extended /\ ~is_affine(rs)

\* the registration without the "not extended" test
registers_coercion_any_affine(rs, extended) == is_affine(rs)

\* the quotient map is registered for an affine type, not extended
registers_coercion(rs, extended) == is_affine(rs) /\ ~extended

\* root_system.weight_space(base_ring, extended=True)
weight_space(rs, ring, extended) == classcall_private(<<rs, ring, extended>>)

\* __init__ constructing the domain of the quotient map without asking the
\* registry for it
made_unchecked(inst, key) ==
    LET domain == weight_space(key.rs, key.ring, TRUE)
    IN  IF registers_coercion(key.rs, key.extended)
        THEN {key, domain} ELSE {key}

\* the instances __init__ of key completes: key itself and, on the way, the
\* domain of the quotient map when the registry does not hold it yet
made(inst, key) ==
    LET domain == weight_space(key.rs, key.ring, TRUE)
    IN  IF registers_coercion(key.rs, key.extended) /\ inst[domain] = 0
        THEN {key, domain} ELSE {key}

init_instances(inst, key) ==
    [k \in Keys |-> IF k \in made(inst, key) THEN inst[k] + 1 ELSE inst[k]]

init_coercions(co, key) ==
    IF registers_coercion(key.rs, key.extended)
    THEN co \cup {Morphism(weight_space(key.rs, key.ring, TRUE), key)}
    ELSE co

Request(args) ==
    LET key == classcall_private(args)
    IN  /\ UNCHANGED <<cache, runs>>
        /\ IF instances[key] > 0
           THEN /\ ret' = Call("WeightSpace", args, key, "", NoValue, NoValue, FALSE, Return(NoValue))
                /\ UNCHANGED <<instances, coercions>>
           ELSE IF init_raises(key.rs, key.extended)
           THEN /\ ret' = Call("WeightSpace", args, NoSpace, "", NoValue, NoValue, TRUE, Raise(ErrExtended))
                /\ UNCHANGED <<instances, coercions>>
           ELSE /\ Cardinality(Live \cup made(instances, key)) <= MaxModels
                /\ instances' = init_instances(instances, key)
                /\ coercions' = init_coercions(coercions, key)
                /\ ret' = Call("WeightSpace", args, key, "", NoValue, NoValue, TRUE, Return(NoValue))

Next == \E args \in RequestArgs : Request(args)

Spec == Init /\ [][Next]_vars

(***************************************************************************)
(* cached_method: the body runs when the key is not in the cache, and a    *)
(* result that is returned (not raised) is stored                          *)
(***************************************************************************)
cache_put(c, key, res) ==
    IF res.status = "ok"
    THEN [k \in DOMAIN c \cup {key} |-> IF k = key THEN res ELSE c[k]]
    ELSE c

runs_put(r, key) ==
    [k \in DOMAIN r \cup {key} |-> IF k \in DOMAIN r THEN r[k] + (IF k = key THEN 1 ELSE 0)
                                   ELSE 1]

CachedCall(P, method, arg, body) ==
    LET key == CallKey(P, method, arg)
    IN  IF key \in DOMAIN cache
        THEN /\ ret' = Call(method, <<>>, P, arg, NoValue, NoValue, FALSE, cache[key])
             /\ UNCHANGED <<cache, runs>>
        ELSE /\ TotalRuns < MaxRuns
             /\ runs' = runs_put(runs, key)
             /\ cache' = cache_put(cache, key, body)
             /\ ret' = Call(method, <<>>, P, arg, NoValue, NoValue, TRUE, body)

\* what a caller may pass as i or j: a node label or "delta"
Arguments == {"0", "1", "2", "3", "4", Delta}

\* fundamental_weight without @cached_method: the body runs at every call and
\* nothing is stored
FundamentalWeightUncached(P, i) ==
    /\ instances[P] > 0
    /\ TotalRuns < MaxRuns
    /\ runs' = runs_put(runs, CallKey(P, "fundamental_weight", i))
    /\ ret' = Call("fundamental_weight", <<>>, P, i, NoValue, NoValue, TRUE,
                   fundamental_weight(P, i))
    /\ UNCHANGED <<instances, coercions, cache>>

FundamentalWeight(P, i) ==
    /\ instances[P] > 0
    /\ CachedCall(P, "fundamental_weight", i, fundamental_weight(P, i))
    /\ UNCHANGED <<instances, coercions>>

SimpleRoot(P, j) ==
    /\ instances[P] > 0
    /\ CachedCall(P, "simple_root", j, simple_root(P, j))
    /\ UNCHANGED <<instances, coercions>>

ToAmbientSpaceMorphism(P) ==
    /\ instances[P] > 0
    /\ CachedCall(P, "to_ambient_space_morphism", "", to_ambient_space_morphism(P))
    /\ UNCHANGED <<instances, coercions>>

\* the elements of P the cached methods have returned so far
Produced(P) ==
    {cache[k].value : k \in {c \in DOMAIN cache :
                               c.model = P /\ c.method \in {"fundamental_weight", "simple_root"}}}

\* the linear extension of on_basis to x: the sum of c * on_basis(k) over the
\* terms (k, c) of x, as an element of P
module_morphism(P, x, image) ==
    LET S == DOMAIN x.coeffs
        T == UNION {DOMAIN image[k].coeffs : k \in S}
    IN  Element(P, remove_zeros([t \in T |->
                       SumOver(S, [k \in S |-> x.coeffs[k] * coefficient(image[k], t)])]))

\* the quotient map registered by __init__, applied to x: its on_basis is the
\* cached method fundamental_weight of the codomain P
Coerce(P, x) ==
    LET S == DOMAIN x.coeffs
        key(k) == CallKey(P, "fundamental_weight", k)
        misses == {key(k) : k \in {i \in S : key(i) \notin DOMAIN cache}}
        res == [k \in S |-> IF key(k) \in DOMAIN cache THEN cache[key(k)]
                            ELSE fundamental_weight(P, k)]
        failed == {k \in S : res[k].status # "ok"}
    IN  /\ \E m \in coercions : m.codomain = P /\ x \in Produced(m.domain)
        /\ runs' = [k \in DOMAIN runs \cup misses |->
                       runs_of(k) + (IF k \in misses THEN 1 ELSE 0)]
        /\ cache' = [k \in DOMAIN cache \cup {c \in misses : res[c.arg].status = "ok"} |->
                        IF k \in DOMAIN cache THEN cache[k] ELSE res[k.arg]]
        /\ ret' = Call("coerce", <<>>, P, "", x, NoValue, misses # {},
                       IF failed = {}
                       THEN Return(module_morphism(P, x, [k \in S |-> res[k].value]))
                       ELSE Raise(res[CHOOSE k \in failed : TRUE].status))
        /\ UNCHANGED <<instances, coercions>>

\* x.to_ambient(): the cached morphism applied to x; the image is written on
\* the family basis = L.fundamental_weights() of the ambient space L
ToAmbient(P, x) ==
    LET key == CallKey(P, "to_ambient_space_morphism", "")
        hit == key \in DOMAIN cache
        res == IF hit THEN cache[key] ELSE to_ambient_space_morphism(P)
    IN  /\ instances[P] > 0
        /\ x \in Produced(P)
        /\ DOMAIN x.coeffs \subseteq index_set(P.rs)
        /\ IF hit THEN UNCHANGED <<cache, runs>>
           ELSE /\ TotalRuns < MaxRuns
                /\ runs' = runs_put(runs, key)
                /\ cache' = cache_put(cache, key, res)
        /\ ret' = Call("to_ambient", <<>>, P, "", x, NoValue, ~hit,
                       IF res.status = "ok"
                       THEN Return(Element(res.morphism.codomain, x.coeffs))
                       ELSE Raise(res.status))
        /\ UNCHANGED <<instances, coercions>>

\* the registries one served WeightSpace(...) request leaves
Served(inst, co) ==
    \E args \in RequestArgs :
        LET key == classcall_private(args)
        IN  /\ ~init_raises(key.rs, key.extended)
            /\ inst = init_instances(NoInstances, key)
            /\ co = init_coercions({}, key)

\* the specification of the cached methods: one WeightSpace(...) request has
\* been served, then its instances are called
InitMethods ==
    /\ Served(instances, coercions)
    /\ cache = NoCache
    /\ runs = NoRuns
    /\ ret = NoCall

NextMethods ==
    \/ \E P \in Keys, i \in Arguments : FundamentalWeight(P, i)
    \/ \E P \in Keys, j \in Arguments : SimpleRoot(P, j)
    \/ \E P \in Keys : ToAmbientSpaceMorphism(P)
    \/ \E P \in Keys : \E x \in Produced(P) : ToAmbient(P, x)
    \/ \E m \in coercions : \E x \in Produced(m.domain) : Coerce(m.codomain, x)

SpecMethods == InitMethods /\ [][NextMethods]_vars

(***************************************************************************)
(* WeightSpaceElement: scalar, is_dominant, to_weight_space                *)
(***************************************************************************)
\* the spaces scalar() tests its argument against, and the coweight space
coroot_lattice(P) == Space("coroot", P.rs, "ZZ", FALSE)

coroot_space(P) == Space("coroot", P.rs, "QQ", FALSE)

coweight_space(P) == Space("coweight", P.rs, "QQ", FALSE)

\* alphacheck[j]: the j-th basis vector of the coroot lattice
simple_coroot(P, j) == monomial(coroot_lattice(P), j)

\* y in S
contains(S, y) == y.parent = S

\* len(x): the number of terms of x
len(x) == Cardinality(DOMAIN x.coeffs)

\* scalar whose len(x) < len(y) branch looks the key up in x itself instead of
\* in the other operand
scalar_self_lookup(x, lambdacheck) ==
    LET P == x.parent
        X == DOMAIN x.coeffs
        Y == DOMAIN lambdacheck.coeffs
    IN  IF ~contains(coroot_lattice(P), lambdacheck) /\ ~contains(coroot_space(P), lambdacheck)
        THEN Raise(ErrCoroot)
        ELSE IF len(x) < len(lambdacheck)
        THEN ReturnNumber(SumOver(X, [i \in X |-> coefficient(x, i) * x.coeffs[i]]))
        ELSE ReturnNumber(SumOver(Y, [i \in Y |-> coefficient(x, i) * lambdacheck.coeffs[i]]))

\* scalar with "or" for "and" in the membership test
scalar_either(x, lambdacheck) ==
    LET P == x.parent
        X == DOMAIN x.coeffs
        Y == DOMAIN lambdacheck.coeffs
    IN  IF ~contains(coroot_lattice(P), lambdacheck) \/ ~contains(coroot_space(P), lambdacheck)
        THEN Raise(ErrCoroot)
        ELSE IF len(x) < len(lambdacheck)
        THEN ReturnNumber(SumOver(X, [i \in X |-> coefficient(lambdacheck, i) * x.coeffs[i]]))
        ELSE ReturnNumber(SumOver(Y, [i \in Y |-> coefficient(x, i) * lambdacheck.coeffs[i]]))

\* scalar summing the coefficients of the operand it iterates over, without
\* the matching coefficient of the other
scalar_unpaired(x, lambdacheck) ==
    LET P == x.parent
        X == DOMAIN x.coeffs
        Y == DOMAIN lambdacheck.coeffs
    IN  IF ~contains(coroot_lattice(P), lambdacheck) /\ ~contains(coroot_space(P), lambdacheck)
        THEN Raise(ErrCoroot)
        ELSE IF len(x) < len(lambdacheck)
        THEN ReturnNumber(SumOver(X, [i \in X |-> x.coeffs[i]]))
        ELSE ReturnNumber(SumOver(Y, [i \in Y |-> lambdacheck.coeffs[i]]))

scalar(x, lambdacheck) ==
    LET P == x.parent
        X == DOMAIN x.coeffs
        Y == DOMAIN lambdacheck.coeffs
    IN  IF ~contains(coroot_lattice(P), lambdacheck) /\ ~contains(coroot_space(P), lambdacheck)
        THEN Raise(ErrCoroot)
        ELSE IF len(x) < len(lambdacheck)
        THEN ReturnNumber(SumOver(X, [i \in X |-> coefficient(lambdacheck, i) * x.coeffs[i]]))
        ELSE ReturnNumber(SumOver(Y, [i \in Y |-> coefficient(x, i) * lambdacheck.coeffs[i]]))

\* is_dominant over every basis key of the parent, "delta" included
is_dominant_every_key(x) ==
    ReturnTruth(\A i \in basis_keys(x.parent) : coefficient(x, i) >= 0)

is_dominant(x) ==
    ReturnTruth(\A i \in index_set(x.parent.rs) : coefficient(x, i) >= 0)

to_weight_space(x) == Return(x)

Abs(n) == IF n < 0 THEN -n ELSE n

\* the elements of the space S on the basis keys, of weight at most MaxWeight
BoundedElements(S, keys) ==
    {Element(S, remove_zeros(f)) :
        f \in {g \in [keys -> -MaxWeight..MaxWeight] :
                  SumOver(keys, [k \in keys |-> Abs(g[k])]) <= MaxWeight}}

\* what a caller may pass to scalar()
ScalarArguments(P) ==
    UNION {BoundedElements(S, index_set(P.rs)) :
              S \in {coroot_lattice(P), coroot_space(P), coweight_space(P)}}

\* the specification of the element methods: one WeightSpace(...) request has
\* been served, x is an element of one of its instances, and one method of x
\* is called (with the argument y when it takes one)
InitElem ==
    /\ Served(instances, coercions)
    /\ cache = NoCache
    /\ runs = NoRuns
    /\ \E P \in Keys :
          /\ instances[P] > 0
          /\ \E x \in BoundedElements(P, basis_keys(P)) :
             \E y \in ScalarArguments(P) \cup {NoValue} :
                ret = Call("input", <<>>, P, "", x, y, FALSE, Raise("none"))

Scalar ==
    /\ ret.op = "input"
    /\ ret.y # NoValue
    /\ ret' = Call("scalar", <<>>, ret.model, "", ret.x, ret.y, TRUE, scalar(ret.x, ret.y))
    /\ UNCHANGED <<instances, coercions, cache, runs>>

IsDominant ==
    /\ ret.op = "input"
    /\ ret.y = NoValue
    /\ ret' = Call("is_dominant", <<>>, ret.model, "", ret.x, ret.y, TRUE, is_dominant(ret.x))
    /\ UNCHANGED <<instances, coercions, cache, runs>>

ToWeightSpace ==
    /\ ret.op = "input"
    /\ ret.y = NoValue
    /\ ret' = Call("to_weight_space", <<>>, ret.model, "", ret.x, ret.y, TRUE, to_weight_space(ret.x))
    /\ UNCHANGED <<instances, coercions, cache, runs>>

NextElem == Scalar \/ IsDominant \/ ToWeightSpace

SpecElem == InitElem /\ [][NextElem]_vars

(***************************************************************************)
(* Properties                                                              *)
(***************************************************************************)
RetResult == Result(ret.status, ret.value, ret.morphism, ret.number, ret.truth)

\* C1: for every j of the index set, simple_root(j) is the element whose
\* coefficient at each index-set key i is the entry of column j of the Cartan
\* matrix at i, and whose coefficient at "delta" is 1 exactly when the model
\* is extended and j is the special node; otherwise it has no "delta" term.
C1_SimpleRootIsColumn ==
    ret.op = "simple_root" /\ ret.arg \in index_set(ret.model.rs) =>
        /\ ret.status = "ok"
        /\ ret.value.parent = ret.model
        /\ DOMAIN ret.value.coeffs \subseteq index_set(ret.model.rs) \cup {Delta}
        /\ \A i \in index_set(ret.model.rs) :
              coefficient(ret.value, i) = cartan_matrix(ret.model.rs)[i][ret.arg]
        /\ IF ret.model.extended /\ ret.arg = "0"
           THEN coefficient(ret.value, Delta) = 1
           ELSE Delta \notin DOMAIN ret.value.coeffs

C1_Witness ==
    /\ ret.op = "simple_root" /\ ret.status = "ok"
    /\ ret.model.extended /\ ret.arg = "0"
    /\ coefficient(ret.value, Delta) = 1
    /\ coefficient(ret.value, "1") = -1

\* C4: fundamental_weight("delta") fails when the type is not affine, returns
\* the "delta" monomial when the type is affine and the model extended, and
\* zero when the type is affine and the model is not extended;
\* fundamental_weight(i) for any other i fails when i is not in the index set
\* and returns the monomial of i otherwise.
C4_FundamentalWeightOutcomes ==
    ret.op = "fundamental_weight" =>
        IF ret.arg = "delta"
        THEN /\ ~is_affine(ret.model.rs) => RetResult = Raise(ErrDelta)
             /\ is_affine(ret.model.rs) /\ ret.model.extended =>
                    RetResult = Return(Element(ret.model, [k \in {"delta"} |-> 1]))
             /\ is_affine(ret.model.rs) /\ ~ret.model.extended =>
                    RetResult = Return(Element(ret.model, NoCoeffs))
        ELSE /\ ret.arg \notin index_set(ret.model.rs) => RetResult = Raise(ErrIndex)
             /\ ret.arg \in index_set(ret.model.rs) =>
                    RetResult = Return(Element(ret.model, [k \in {ret.arg} |-> 1]))

C4_Witness ==
    /\ ret.op = "fundamental_weight" /\ ret.arg = "delta"
    /\ is_affine(ret.model.rs) /\ ~ret.model.extended
    /\ ret.status = "ok" /\ ret.value = zero(ret.model)

\* C5: WeightSpace(root_system, base_ring, extended=True) fails for a type
\* that is not affine and succeeds for an affine one, and no instance exists
\* for a triple with extended = True and a type that is not affine.
C5_ExtendedOnlyAffine ==
    /\ \A k \in Keys : k.extended /\ ~is_affine(k.rs) => instances[k] = 0
    /\ ret.op = "WeightSpace" /\ Len(ret.args) = 3 /\ ret.args[3] =>
          IF is_affine(ret.args[1])
          THEN ret.status = "ok" /\ ret.model.extended /\ instances[ret.model] >= 1
          ELSE ret.status = ErrExtended /\ ret.model = NoSpace

C5_Witness ==
    /\ ret.op = "WeightSpace" /\ ret.status = ErrExtended
    /\ ret.args = <<"C4", "QQ", TRUE>>
    /\ Live # {}

\* C8: there is at most one instance per (root_system, base_ring, extended);
\* a served request returns the instance of its triple, and a request that
\* omits extended returns the instance of extended = False.
C8_UniqueInstance ==
    /\ \A k \in Keys : instances[k] <= 1
    /\ ret.op = "WeightSpace" /\ ret.status = "ok" =>
          /\ ret.model = Space("weight", ret.args[1], ret.args[2],
                               IF Len(ret.args) = 3 THEN ret.args[3] ELSE FALSE)
          /\ instances[ret.model] = 1

\* a request without extended served from the registry
C8_Witness ==
    /\ ret.op = "WeightSpace" /\ ret.status = "ok"
    /\ Len(ret.args) = 2 /\ ~ret.ran
    /\ ~ret.model.extended /\ instances[ret.model] = 1

C10_AmbientOnlyFiniteDirect ==
    ret.op \in {"to_ambient_space_morphism", "to_ambient"} =>
        /\ dual_side(ret.model.rs) => ret.status = ErrDual
        /\ is_affine(ret.model.rs) => ret.status # "ok"
        /\ ret.status = "ok" => ~dual_side(ret.model.rs) /\ ~is_affine(ret.model.rs)

\* C3: a quotient coercion is registered onto an instance exactly when the
\* instance is not extended and its type is affine, from the extended instance
\* of the same root system and base ring; it sends every fundamental weight
\* of the extended space to the one of the same index and "delta" to zero,
\* linearly.
C3_QuotientCoercion ==
    /\ \A k \in Keys :
          (\E m \in coercions : m.codomain = k)
              <=> (instances[k] > 0 /\ ~k.extended /\ is_affine(k.rs))
    /\ \A m \in coercions :
          /\ m.domain = Space("weight", m.codomain.rs, m.codomain.ring, TRUE)
          /\ instances[m.domain] > 0
    /\ ret.op = "coerce" =>
          /\ ret.status = "ok"
          /\ ret.x.parent = Space("weight", ret.model.rs, ret.model.ring, TRUE)
          /\ ret.value = Element(ret.model,
                                 [k \in DOMAIN ret.x.coeffs \ {"delta"} |-> ret.x.coeffs[k]])

\* the simple root of the special node, with its "delta" term, coerced
C3_Witness ==
    /\ ret.op = "coerce" /\ ret.status = "ok"
    /\ coefficient(ret.x, "delta") = 1
    /\ coefficient(ret.x, "0") = 2
    /\ coefficient(ret.value, "0") = 2
    /\ "delta" \notin DOMAIN ret.value.coeffs

\* C2: fundamental_weight(i).scalar(simple_coroot(j)) is 1 when i = j and 0
\* otherwise, for all i and j of the index set.
C2_DualBases ==
    ret.op = "scalar" =>
        \A i, j \in index_set(ret.model.rs) :
            /\ ret.x = fundamental_weight(ret.model, i).value
            /\ ret.y = simple_coroot(ret.model, j)
            => RetResult = ReturnNumber(IF i = j THEN 1 ELSE 0)

C2_Witness ==
    /\ ret.op = "scalar" /\ ret.status = "ok" /\ ret.number = 0
    /\ ret.x = fundamental_weight(ret.model, "1").value
    /\ ret.y = simple_coroot(ret.model, "2")

\* C6: scalar(other) fails with "not in the coroot space", returning no
\* value, exactly when other belongs neither to the coroot lattice nor to the
\* coroot space of the parent; otherwise it returns a pairing.
C6_ScalarRejects ==
    ret.op = "scalar" =>
        IF ret.y.parent \in {Space("coroot", ret.model.rs, "ZZ", FALSE),
                             Space("coroot", ret.model.rs, "QQ", FALSE)}
        THEN ret.status = "ok"
        ELSE RetResult = Raise(ErrCoroot)

C6_Witness ==
    /\ ret.op = "scalar" /\ ret.status = ErrCoroot
    /\ ret.y.parent = coweight_space(ret.model)
    /\ ret.x.coeffs # NoCoeffs /\ ret.y.coeffs # NoCoeffs

\* C7: is_dominant() is true exactly when no coefficient of the element at a
\* key other than "delta" is negative; the coefficient at "delta" plays no
\* part.
C7_Dominant ==
    ret.op = "is_dominant" =>
        /\ ret.status = "ok"
        /\ ret.truth = (\A k \in DOMAIN ret.x.coeffs \ {"delta"} : ret.x.coeffs[k] >= 0)

C7_Witness ==
    /\ ret.op = "is_dominant" /\ ret.truth
    /\ coefficient(ret.x, "delta") < 0
    /\ coefficient(ret.x, "1") > 0

\* C11: for an argument y of the coroot lattice or space, x.scalar(y) is the
\* sum, from zero, of (coefficient of x) * (coefficient of y) over the keys
\* present in both; the value does not depend on which operand is iterated
\* (len(x) < len(y) or not), and a key of one operand only, "delta" of an
\* extended model included, contributes nothing.
C11_SparseInnerProduct ==
    ret.op = "scalar" /\ ret.status = "ok" =>
        LET shared == DOMAIN ret.x.coeffs \cap DOMAIN ret.y.coeffs
        IN  /\ "delta" \notin shared
            /\ RetResult = ReturnNumber(
                   SumOver(shared, [k \in shared |-> ret.x.coeffs[k] * ret.y.coeffs[k]]))

\* the branch that iterates over x, with a key of y that x does not hold
C11_Witness ==
    /\ ret.op = "scalar" /\ ret.status = "ok"
    /\ Cardinality(DOMAIN ret.x.coeffs) < Cardinality(DOMAIN ret.y.coeffs)
    /\ ret.x.coeffs # NoCoeffs
    /\ ret.number = -1

\* the triple a request asks for
Requested(call) ==
    Space("weight", call.args[1], call.args[2],
          IF Len(call.args) = 3 THEN call.args[3] ELSE FALSE)

\* what a request that ran __init__ to its end registers
Registered(call) ==
    IF call.ran /\ call.status = "ok" /\ is_affine(call.args[1]) /\ ~Requested(call).extended
    THEN {Morphism(Space("weight", call.args[1], call.args[2], TRUE), Requested(call))}
    ELSE {}

\* C12 as stated: an instance of a triple is created only by the first
\* request for that same triple; a request creates no other instance, and its
\* only side effect is the registration of the quotient coercion when the type
\* is affine and the model is not extended.
C12_CreatesOnlyRequested ==
    [][/\ \A k \in Keys :
             instances'[k] # instances[k] =>
                 /\ k = Requested(ret')
                 /\ instances[k] = 0 /\ instances'[k] = 1
       /\ coercions' = coercions \cup Registered(ret')
       /\ cache' = cache /\ runs' = runs]_vars

\* C12: an instance of a triple is created only while the registry holds none
\* for it, by a request for that triple or, for an extended triple of affine
\* type, by the first request for the non-extended triple of the same root
\* system and base ring, whose __init__ asks for the extended space as the
\* domain of the quotient coercion; beyond that, the only side effect of a
\* request is the registration of that coercion.
C12_CreatesRequestedAndDomain ==
    [][/\ \A k \in Keys :
             instances'[k] # instances[k] =>
                 /\ ret'.ran /\ ret'.status = "ok"
                 /\ instances[k] = 0 /\ instances'[k] = 1
                 /\ \/ k = Requested(ret')
                    \/ /\ is_affine(k.rs) /\ ~Requested(ret').extended
                       /\ k = Space("weight", ret'.args[1], ret'.args[2], TRUE)
       /\ ret'.ran /\ ret'.status = "ok" =>
             /\ instances[Requested(ret')] = 0 /\ instances'[Requested(ret')] = 1
             /\ \A m \in Registered(ret') : instances'[m.domain] = 1
       /\ coercions' = coercions \cup Registered(ret')
       /\ cache' = cache /\ runs' = runs]_vars

\* a non-extended affine space constructed: its extended space exists too and
\* the quotient coercion is registered
C12_Witness ==
    /\ ret.op = "WeightSpace" /\ ret.ran /\ ret.status = "ok"
    /\ ret.args = <<"A3~", "QQ">>
    /\ Live = {ret.model, Space("weight", "A3~", "QQ", TRUE)}
    /\ coercions = {Morphism(Space("weight", "A3~", "QQ", TRUE), ret.model)}

====
